---- MODULE Spec2Model ----
(***************************************************************************)
(* A model of compare_tables.py: the cast resolver, the construction of    *)
(* the comparison query, its evaluation by the database engine and the     *)
(* reconciliation loop that turns the result rows into diff records.       *)
(*                                                                         *)
(* SQL text and identifiers are TLA+ strings (f-strings are \o); a cast    *)
(* type is a sequence of one-character strings so that str.upper() can be  *)
(* computed; a cell value is a tagged pair <<tag, n>>; Python's None and   *)
(* SQL's NULL are the same value Null; an Optional[int] is a set of at     *)
(* most one integer.                                                       *)
(***************************************************************************)
EXTENDS Integers, Sequences, FiniteSets, TLC

VARIABLES
    db_type,            \* "duckdb", "bigquery" or anything else
    table1_name,        \* name of table 1, split at the dots
    table2_name,        \* name of table 2, split at the dots
    t1_cols_list,       \* column listing of table 1, in the listing's order
    t2_cols_list,       \* column listing of table 2
    table1,             \* content of table 1: a set of rows (column -> value)
    table2,             \* content of table 2
    pk_cols,            \* sequence of column names
    ignore_cols,        \* sequence of column names
    scalar_casts,       \* function: column name -> cast type (char sequence)
    limit,              \* {} for None, {n} for the integer n
    pc,                 \* position in compare_tables_internal / the cast call
    compare_cols,       \* sorted compare columns
    query,              \* the SQL text
    executed,           \* the statements executed on the connection, in order
    results_iter,       \* fetched rows: sequence of value tuples
    final_column_names, \* names of the result columns, by position
    row_idx,            \* number of result rows already reconciled
    output_diffs,       \* sequence of diff records
    error,              \* the exception that ended the run, or NoError
    cast_expr,          \* argument sql_expression_to_cast of a cast call
    cast_type,          \* argument cast_type of a cast call
    cast_result         \* outcome of a cast call

vars == <<db_type, table1_name, table2_name, t1_cols_list, t2_cols_list, table1, table2, pk_cols,
          ignore_cols, scalar_casts, limit, pc,
          compare_cols, query, executed, results_iter, final_column_names,
          row_idx, output_diffs, error, cast_expr, cast_type, cast_result>>

(***************************************************************************)
(* Bounds of the model.                                                    *)
(***************************************************************************)
\* largest number of rows of table1 and table2 together
MaxTotalRows == 2
\* largest number of rows of a table when both tables are the same
MaxSameRows == 2

(***************************************************************************)
(* Generic helpers.                                                        *)
(***************************************************************************)
Range(s) == {s[i] : i \in 1..Len(s)}

RECURSIVE Concat(_)
\* "".join(seq) for a sequence of strings
Concat(s) == IF s = <<>> THEN "" ELSE Head(s) \o Concat(Tail(s))

RECURSIVE Join(_, _)
\* sep.join(seq)
Join(sep, s) ==
    IF s = <<>> THEN ""
    ELSE IF Len(s) = 1 THEN s[1]
    ELSE s[1] \o sep \o Join(sep, Tail(s))

\* [f(x) for x in s]
Map(s, F(_)) == [i \in 1..Len(s) |-> F(s[i])]

\* all sequences listing the elements of the finite set S once each
Perms(S) ==
    {p \in [1..Cardinality(S) -> S] : \A x \in S : \E i \in DOMAIN p : p[i] = x}

\* the rotations of a sequence
Rotations(s) ==
    IF s = <<>> THEN {<<>>}
    ELSE {[i \in 1..Len(s) |-> s[((i + r - 1) % Len(s)) + 1]] : r \in 0..(Len(s) - 1)}

(***************************************************************************)
(* Strings of cast types: str.upper().                                     *)
(***************************************************************************)
Lower == <<"a","b","c","d","e","f","g","h","i","j","k","l","m",
           "n","o","p","q","r","s","t","u","v","w","x","y","z">>
Upper == <<"A","B","C","D","E","F","G","H","I","J","K","L","M",
           "N","O","P","Q","R","S","T","U","V","W","X","Y","Z">>

UpperChar(c) ==
    IF \E i \in 1..Len(Lower) : Lower[i] = c
    THEN Upper[CHOOSE i \in 1..Len(Lower) : Lower[i] = c]
    ELSE c

LowerChar(c) ==
    IF \E i \in 1..Len(Upper) : Upper[i] = c
    THEN Lower[CHOOSE i \in 1..Len(Upper) : Upper[i] = c]
    ELSE c

\* cast_type.upper()
StrUpper(s) == [i \in 1..Len(s) |-> UpperChar(s[i])]

(***************************************************************************)
(* _get_cast_expression_for_sql_expr                                       *)
(***************************************************************************)
valid_types == <<
    <<"S","T","R","I","N","G">>, <<"V","A","R","C","H","A","R">>,
    <<"F","L","O","A","T","6","4">>, <<"D","O","U","B","L","E">>, <<"F","L","O","A","T">>,
    <<"B","O","O","L">>, <<"B","O","O","L","E","A","N">>,
    <<"D","A","T","E">>,
    <<"T","I","M","E","S","T","A","M","P">>,
    <<"I","N","T","6","4">>, <<"I","N","T","E","G","E","R">>, <<"B","I","G","I","N","T">>,
    <<"I","N","T">>, <<"S","M","A","L","L","I","N","T">>, <<"T","I","N","Y","I","N","T">>,
    <<"B","Y","T","E","S">>,
    <<"N","U","M","E","R","I","C">>, <<"D","E","C","I","M","A","L">>,
    <<"B","I","G","N","U","M","E","R","I","C">>,
    <<"J","S","O","N">>,
    <<"T","I","M","E">> >>

\* the dict `mapping`, as a sequence of <<key, value>> pairs
mapping == <<
    << <<"T","E","X","T">>, <<"S","T","R","I","N","G">> >>,
    << <<"I","N","T">>, <<"I","N","T","6","4">> >>,
    << <<"I","N","T","E","G","E","R">>, <<"I","N","T","6","4">> >>,
    << <<"B","I","G","I","N","T">>, <<"I","N","T","6","4">> >>,
    << <<"D","O","U","B","L","E">>, <<"F","L","O","A","T","6","4">> >>,
    << <<"B","O","O","L","E","A","N">>, <<"B","O","O","L">> >>,
    << <<"D","E","C","I","M","A","L">>, <<"N","U","M","E","R","I","C">> >> >>

\* mapping.get(t, t)
MappingGet(t) ==
    IF \E i \in 1..Len(mapping) : mapping[i][1] = t
    THEN mapping[CHOOSE i \in 1..Len(mapping) : mapping[i][1] = t][2]
    ELSE t

\* the value of normalized_cast_type when the function returns or raises
NormalizeCastType(ct) ==
    LET normalized_cast_type == StrUpper(ct) IN
    IF normalized_cast_type \notin Range(valid_types)
    THEN MappingGet(normalized_cast_type)
    ELSE normalized_cast_type

\* no exception
NoError == [type |-> "none", kind |-> "none", input |-> ""]

\* the ValueError raised for an unsupported cast type; its message names the
\* offending input
UnsupportedCastError(ct) ==
    [type |-> "ValueError", kind |-> "unsupported_cast", input |-> Concat(ct)]

\* the outcome of the call: [ok |-> TRUE, text |-> ...] or [ok |-> FALSE, err |-> ...]
GetCastExpressionForSqlExpr(sql_expression_to_cast, ct) ==
    LET normalized_cast_type == NormalizeCastType(ct) IN
    IF normalized_cast_type \notin Range(valid_types)
    THEN [ok |-> FALSE, text |-> "", err |-> UnsupportedCastError(ct)]
    ELSE [ok |-> TRUE,
          text |-> "CAST(" \o sql_expression_to_cast \o " AS "
                    \o Concat(normalized_cast_type) \o ")",
          err |-> NoError]

(***************************************************************************)
(* Cell values.  Python's None is SQL's NULL.  A value tagged "obj" is a   *)
(* value the BigQuery client returns as a non-primitive Python object      *)
(* (a date, a Decimal); str() of it is the value tagged "objstr".          *)
(***************************************************************************)
Null == <<"null", 0>>
IntV(n) == <<"int", n>>
ObjV(n) == <<"obj", n>>
StrV(n) == <<"str", n>>

\* isinstance(v, (str, int, float, bool, type(None)))
IsPrimitive(v) == v[1] \in {"null", "int", "str", "objstr"}

\* str(v) of a non-primitive value
PyStr(v) == <<"objstr", v[2]>>

\* the coercion of val1 and val2 in the value-comparison branch
CoerceForCompare(db, v) ==
    IF db = "bigquery" /\ ~IsPrimitive(v) THEN PyStr(v) ELSE v

(***************************************************************************)
(* Identifier quoting and table references.                                *)
(***************************************************************************)
\* BigQuery's identifier delimiter, the grave accent U+0060; a TLA+ string
\* literal cannot hold that character, "~" stands for it in the SQL text
Backtick == "~"

\* _quote_identifier
QuoteIdentifier(identifier, db) ==
    IF db = "duckdb" THEN "\"" \o identifier \o "\""
    ELSE IF db = "bigquery" THEN Backtick \o identifier \o Backtick
    ELSE identifier

\* quote_duckdb_name, on the name split at the dots
QuoteDuckdbName(parts) == Join(".", Map(parts, LAMBDA part : "\"" \o part \o "\""))

\* the project of the BigQuery client
ClientProject == "proj"

FormatError == [type |-> "ValueError", kind |-> "bad_table_name", input |-> ""]

\* _parse_bigquery_table_name, on the name split at the dots
ParseBigqueryTableName(parts, client_project) ==
    IF Len(parts) = 3 THEN [ok |-> TRUE, text |-> Join(".", parts), err |-> NoError]
    ELSE IF Len(parts) = 2
         THEN IF client_project = ""
              THEN [ok |-> FALSE, text |-> "", err |-> FormatError]
              ELSE [ok |-> TRUE,
                    text |-> client_project \o "." \o parts[1] \o "." \o parts[2],
                    err |-> NoError]
    ELSE [ok |-> FALSE, text |-> "", err |-> FormatError]

\* table1_sql_ref / table2_sql_ref
TableSqlRef(db, parts) ==
    IF db = "duckdb" THEN QuoteDuckdbName(parts)
    ELSE Backtick \o ParseBigqueryTableName(parts, ClientProject).text \o Backtick

\* the statement _get_duckdb_table_columns executes
DescribeStatement(parts) ==
    "DESCRIBE " \o (IF Len(parts) > 1
                     THEN "\"" \o parts[1] \o "\".\"" \o Join(".", Tail(parts)) \o "\""
                     ELSE "\"" \o Join(".", parts) \o "\"")

(***************************************************************************)
(* Construction of the comparison query.                                   *)
(***************************************************************************)
\* the column names of the model, in the order Python's str comparison
\* (by code point) puts them
ColumnOrder == <<"a", "id", "k", "zz">>

ColumnRank(c) == CHOOSE i \in 1..Len(ColumnOrder) : ColumnOrder[i] = c

RECURSIVE InsertSorted(_, _)
InsertSorted(c, s) ==
    IF s = <<>> THEN <<c>>
    ELSE IF ColumnRank(c) <= ColumnRank(Head(s)) THEN <<c>> \o s
    ELSE <<Head(s)>> \o InsertSorted(c, Tail(s))

\* a variant that leaves the list in the order it has
SortedOmitted(s) == s

RECURSIVE Sorted(_)
\* sorted(s) for a list of column names
Sorted(s) == IF s = <<>> THEN <<>> ELSE InsertSorted(Head(s), Sorted(Tail(s)))

\* the lists list(set(t1_cols_list).intersection(set(t2_cols_list))) may be:
\* a set is listed in any order
CommonSchemaCols(l1, l2) == Perms(Range(l1) \cap Range(l2))

\* compare_cols, from common_schema_cols in the order the set gave them
CompareCols(common, pk, ignore) ==
    LET Keep(col) == col \notin Range(pk) /\ col \notin Range(ignore)
    IN  Sorted(SelectSeq(common, Keep))

\* _build_select_expression
BuildSelectExpression(col, table_alias_in_cte_from, casts, db) ==
    LET source_col_ref == table_alias_in_cte_from \o "." \o QuoteIdentifier(col, db)
        cast == IF col \in DOMAIN casts
                THEN GetCastExpressionForSqlExpr(source_col_ref, casts[col])
                ELSE [ok |-> TRUE, text |-> source_col_ref, err |-> NoError]
        output_alias_for_cte ==
            QuoteIdentifier(table_alias_in_cte_from \o "_" \o col, db)
    IN  [ok |-> cast.ok,
         text |-> cast.text \o " AS " \o output_alias_for_cte,
         err |-> cast.err]

\* t1_select_exprs_for_cte / t2_select_exprs_for_cte
SelectExprs(table_alias, pk, compare, casts, db) ==
    Map(pk \o compare, LAMBDA col : BuildSelectExpression(col, table_alias, casts, db))

\* the exception the two list comprehensions raise: that of the first
\* column whose cast type is rejected, or NoError
SelectExprsError(pk, compare, casts, db) ==
    LET exprs == SelectExprs("t1", pk, compare, casts, db) IN
    IF \A i \in 1..Len(exprs) : exprs[i].ok THEN NoError
    ELSE exprs[CHOOSE i \in 1..Len(exprs) :
                   ~exprs[i].ok /\ \A j \in 1..(i - 1) : exprs[j].ok].err

JoinOnPks(pk, db) ==
    Join(" AND ", Map(pk, LAMBDA c :
        "t1." \o QuoteIdentifier("t1_" \o c, db) \o " = t2."
              \o QuoteIdentifier("t2_" \o c, db)))

DiffConditionsList(compare, db) ==
    Map(compare, LAMBDA col :
        "t1." \o QuoteIdentifier("t1_" \o col, db) \o " IS DISTINCT FROM t2."
              \o QuoteIdentifier("t2_" \o col, db))

T1OnlyConditions(pk, db) ==
    Join(" AND ", Map(pk, LAMBDA c :
        "t2." \o QuoteIdentifier("t2_" \o c, db) \o " IS NULL"))

T2OnlyConditions(pk, db) ==
    Join(" AND ", Map(pk, LAMBDA c :
        "t1." \o QuoteIdentifier("t1_" \o c, db) \o " IS NULL"))

\* where_parts
WhereParts(pk, compare, db) ==
    (IF DiffConditionsList(compare, db) # <<>>
     THEN <<"(" \o Join(" OR ", DiffConditionsList(compare, db)) \o ")">>
     ELSE <<>>)
    \o (IF pk # <<>>
        THEN <<"(" \o T1OnlyConditions(pk, db) \o ")",
               "(" \o T2OnlyConditions(pk, db) \o ")">>
        ELSE <<>>)

WhereClause(pk, compare, db) ==
    IF WhereParts(pk, compare, db) = <<>> THEN "1=0"
    ELSE Join(" OR ", WhereParts(pk, compare, db))

CoalescedPkSelects(pk, db) ==
    Map(pk, LAMBDA c :
        "COALESCE(t1." \o QuoteIdentifier("t1_" \o c, db) \o ", t2."
            \o QuoteIdentifier("t2_" \o c, db) \o ") AS " \o QuoteIdentifier(c, db))

Digits == <<"0", "1", "2", "3", "4", "5", "6", "7", "8", "9">>

RECURSIVE IntToStr(_)
\* str(n) for n >= 0
IntToStr(n) ==
    IF n < 10 THEN Digits[n + 1] ELSE IntToStr(n \div 10) \o Digits[(n % 10) + 1]

\* the text appended for the limit
LimitClause(lim) ==
    IF lim = {} THEN "" ELSE " LIMIT " \o IntToStr(CHOOSE n \in lim : TRUE)

\* the f-string `query`, with the limit appended
QueryText(db, ref1, ref2, pk, compare, casts, lim) ==
    "\n    WITH table1_prepared AS (\n        SELECT "
    \o Join(", ", Map(SelectExprs("t1", pk, compare, casts, db), LAMBDA e : e.text))
    \o " FROM " \o ref1 \o " t1\n    ),\n    table2_prepared AS (\n        SELECT "
    \o Join(", ", Map(SelectExprs("t2", pk, compare, casts, db), LAMBDA e : e.text))
    \o " FROM " \o ref2 \o " t2\n    )\n    SELECT\n        "
    \o Join(", ", CoalescedPkSelects(pk, db))
    \o ",\n        t1.*, \n        t2.*  \n    FROM table1_prepared t1\n"
    \o "    FULL OUTER JOIN table2_prepared t2 ON " \o JoinOnPks(pk, db)
    \o "\n    WHERE " \o WhereClause(pk, compare, db) \o "\n    "
    \o LimitClause(lim)

(***************************************************************************)
(* The database engine's evaluation of the comparison query.  A table is   *)
(* a set of rows; a prepared row is the tuple of the values of             *)
(* pk_cols + compare_cols, cast where a cast is requested.                 *)
(***************************************************************************)
RECURSIVE SetToSeq(_)
\* the rows of a table in the engine's scan order
SetToSeq(S) ==
    IF S = {} THEN <<>>
    ELSE LET x == CHOOSE y \in S : TRUE IN <<x>> \o SetToSeq(S \ {x})

\* CAST(v AS normalized type), for the integer and the string types
CastValue(v, ct) ==
    LET t == NormalizeCastType(ct) IN
    IF v = Null THEN Null
    ELSE IF t \in {<<"S","T","R","I","N","G">>, <<"V","A","R","C","H","A","R">>}
         THEN (IF v[1] = "int" THEN StrV(v[2]) ELSE v)
    ELSE IF t \in {<<"I","N","T","6","4">>, <<"I","N","T","E","G","E","R">>,
                   <<"B","I","G","I","N","T">>, <<"I","N","T">>}
         THEN (IF v[1] = "str" THEN IntV(v[2]) ELSE v)
    ELSE v

\* one row of table1_prepared / table2_prepared
PreparedRow(row, pk, compare, casts) ==
    LET sel == pk \o compare IN
    [i \in 1..Len(sel) |->
        IF sel[i] \in DOMAIN casts THEN CastValue(row[sel[i]], casts[sel[i]])
        ELSE row[sel[i]]]

NullRow(n) == [i \in 1..n |-> Null]

\* a variant that joins on the last key column alone
PkMatchLastKeyOnly(p1, p2, npk) ==
    npk > 0 => (p1[npk] # Null /\ p2[npk] # Null /\ p1[npk] = p2[npk])

\* the ON condition: SQL equality is true only of two non-NULL equal values
PkMatch(p1, p2, npk) ==
    \A i \in 1..npk : p1[i] # Null /\ p2[i] # Null /\ p1[i] = p2[i]

\* FULL OUTER JOIN: a sequence of pairs <<side-1 prepared row, side-2 prepared row>>
FullOuterJoin(rows1, rows2, npk, width) ==
    LET matched == [i \in 1..Len(rows1) |->
                       SelectSeq(rows2, LAMBDA p2 : PkMatch(rows1[i], p2, npk))]
        RECURSIVE Left(_)
        Left(i) ==
            IF i > Len(rows1) THEN <<>>
            ELSE (IF matched[i] = <<>> THEN << <<rows1[i], NullRow(width)>> >>
                  ELSE Map(matched[i], LAMBDA p2 : <<rows1[i], p2>>))
                 \o Left(i + 1)
        unmatched2 ==
            SelectSeq(rows2, LAMBDA p2 :
                \A i \in 1..Len(rows1) : ~PkMatch(rows1[i], p2, npk))
    IN  Left(1) \o Map(unmatched2, LAMBDA p2 : <<NullRow(width), p2>>)

\* the WHERE clause on a joined pair, part by part as where_parts has them
WhereHolds(jr, npk, ncmp) ==
    \/ ncmp > 0 /\ \E i \in (npk + 1)..(npk + ncmp) : jr[1][i] # jr[2][i]
    \/ npk > 0 /\ \A i \in 1..npk : jr[2][i] = Null
    \/ npk > 0 /\ \A i \in 1..npk : jr[1][i] = Null

\* the SELECT list: COALESCE of the keys, t1.*, t2.*
ResultTuple(jr, npk) ==
    [i \in 1..npk |-> IF jr[1][i] # Null THEN jr[1][i] ELSE jr[2][i]]
    \o jr[1] \o jr[2]

\* the names of the result columns (description)
ResultColumnNames(pk, compare) ==
    pk \o Map(pk \o compare, LAMBDA c : "t1_" \o c)
       \o Map(pk \o compare, LAMBDA c : "t2_" \o c)

\* the rows the query selects, before ordering and LIMIT
SelectedRows(t1, t2, pk, compare, casts) ==
    LET rows1 == Map(SetToSeq(t1), LAMBDA r : PreparedRow(r, pk, compare, casts))
        rows2 == Map(SetToSeq(t2), LAMBDA r : PreparedRow(r, pk, compare, casts))
        joined == FullOuterJoin(rows1, rows2, Len(pk), Len(pk) + Len(compare))
    IN  Map(SelectSeq(joined, LAMBDA jr : WhereHolds(jr, Len(pk), Len(compare))),
            LAMBDA jr : ResultTuple(jr, Len(pk)))

\* a variant in which the engine ignores LIMIT
ApplyLimitIgnored(rows, lim) == rows

\* LIMIT n keeps the first n rows; no LIMIT keeps all
ApplyLimit(rows, lim) ==
    IF lim = {} THEN rows
    ELSE LET n == CHOOSE m \in lim : TRUE
         IN  SubSeq(rows, 1, IF n < Len(rows) THEN n ELSE Len(rows))

\* the result sets the engine may return: SQL fixes no order, the model
\* lets the scan start at any row
QueryResults(t1, t2, pk, compare, casts, lim) ==
    {ApplyLimit(o, lim) : o \in Rotations(SelectedRows(t1, t2, pk, compare, casts))}

(***************************************************************************)
(* The reconciliation of one result row.                                   *)
(***************************************************************************)
\* dict(zip(final_column_names, row_tuple)): a later duplicate name wins
DictZip(names, tuple) ==
    LET n == IF Len(names) < Len(tuple) THEN Len(names) ELSE Len(tuple) IN
    [k \in {names[i] : i \in 1..n} |->
        tuple[CHOOSE i \in 1..n : names[i] = k /\ \A j \in (i + 1)..n : names[j] # k]]

\* row_dict.get(k)
Get(d, k) == IF k \in DOMAIN d THEN d[k] ELSE Null

\* a variant that asks for every side-1 key column to be present
IsT1OnlyAllPresent(row_dict, pk) ==
    /\ \A i \in 1..Len(pk) : Get(row_dict, "t2_" \o pk[i]) = Null
    /\ \A i \in 1..Len(pk) : Get(row_dict, "t1_" \o pk[i]) # Null

IsT1Only(row_dict, pk) ==
    /\ \A i \in 1..Len(pk) : Get(row_dict, "t2_" \o pk[i]) = Null
    /\ \E i \in 1..Len(pk) : Get(row_dict, "t1_" \o pk[i]) # Null

IsT2Only(row_dict, pk) ==
    /\ \A i \in 1..Len(pk) : Get(row_dict, "t1_" \o pk[i]) = Null
    /\ \E i \in 1..Len(pk) : Get(row_dict, "t2_" \o pk[i]) # Null

\* a variant in which a None never differs from anything, as SQL's <> has it
ValuesDifferNotNullSafe(val1, val2) ==
    val1 # Null /\ val2 # Null /\ val1 # val2

\* val1 != val2
ValuesDiffer(val1, val2) == val1 # val2

\* diff_details of the value-comparison branch
ValueDiffDetails(row_dict, compare, db) ==
    LET V1(col) == CoerceForCompare(db, Get(row_dict, "t1_" \o col))
        V2(col) == CoerceForCompare(db, Get(row_dict, "t2_" \o col))
    IN  [col \in {c \in Range(compare) : ValuesDiffer(V1(c), V2(c))} |->
            <<V1(col), V2(col)>>]

\* diff_details after the if / elif / else
DiffDetails(row_dict, pk, compare, db) ==
    IF IsT1Only(row_dict, pk)
    THEN [col \in Range(compare) |-> <<Get(row_dict, "t1_" \o col), Null>>]
    ELSE IF IsT2Only(row_dict, pk)
    THEN [col \in Range(compare) |-> <<Null, Get(row_dict, "t2_" \o col)>>]
    ELSE ValueDiffDetails(row_dict, compare, db)

\* status_indicators after the if / elif / else
StatusIndicators(row_dict, pk, compare, db) ==
    IF IsT1Only(row_dict, pk) THEN <<"present_in_table1_only">>
    ELSE IF IsT2Only(row_dict, pk) THEN <<"present_in_table2_only">>
    ELSE IF DOMAIN ValueDiffDetails(row_dict, compare, db) # {}
         THEN <<"value_differences">>
    ELSE <<>>

\* a variant that appends an entry only when it has column diffs
ShouldEmitOnlyWithDetails(diff_details, status_indicators) ==
    DOMAIN diff_details # {}

\* a variant that appends an entry for every row
ShouldEmitAlways(diff_details, status_indicators) == TRUE

\* the condition under which diff_entry is appended to output_diffs
ShouldEmit(diff_details, status_indicators) ==
    \/ DOMAIN diff_details # {}
    \/ "present_in_table1_only" \in Range(status_indicators)
    \/ "present_in_table2_only" \in Range(status_indicators)

\* diff_entry; the code keeps the status inside the diffs dict under the key
\* "_status", the model keeps it beside the column diffs
DiffEntry(row_dict, pk, compare, db) ==
    [pk |-> [c \in Range(pk) |-> Get(row_dict, c)],
     diffs |-> DiffDetails(row_dict, pk, compare, db),
     status |-> Join(",", StatusIndicators(row_dict, pk, compare, db))]

\* output_diffs after the loop body has run on row_tuple
ReconcileRow(out, names, row_tuple, pk, compare, db) ==
    LET row_dict == DictZip(names, row_tuple) IN
    IF ShouldEmit(DiffDetails(row_dict, pk, compare, db),
                  StatusIndicators(row_dict, pk, compare, db))
    THEN Append(out, DiffEntry(row_dict, pk, compare, db))
    ELSE out

(***************************************************************************)
(* compare_tables_internal, step by step.                                  *)
(***************************************************************************)
UnsupportedDbError == [type |-> "ValueError", kind |-> "unsupported_db", input |-> ""]
EmptyPkError == [type |-> "ValueError", kind |-> "pk_empty", input |-> ""]
PkNotCommonError(pk_col) ==
    [type |-> "ValueError", kind |-> "pk_not_common", input |-> pk_col]

Raise(e) == pc' = "failed" /\ error' = e

\* the dispatch on db_type: the exception it raises, or NoError
FetchColumnsError(db, name1, name2) ==
    IF db = "duckdb" THEN NoError
    ELSE IF db = "bigquery"
    THEN (IF ~ParseBigqueryTableName(name1, ClientProject).ok
          THEN ParseBigqueryTableName(name1, ClientProject).err
          ELSE ParseBigqueryTableName(name2, ClientProject).err)
    ELSE UnsupportedDbError

\* the column listings are fetched; DuckDB is asked with DESCRIBE statements
FetchColumns ==
    /\ pc = "start"
    /\ IF FetchColumnsError(db_type, table1_name, table2_name) # NoError
       THEN /\ Raise(FetchColumnsError(db_type, table1_name, table2_name))
            /\ UNCHANGED executed
       ELSE /\ pc' = "fetched"
            /\ executed' = IF db_type = "duckdb"
                           THEN executed \o <<DescribeStatement(table1_name),
                                              DescribeStatement(table2_name)>>
                           ELSE executed
            /\ UNCHANGED error
    /\ UNCHANGED <<db_type, table1_name, table2_name, t1_cols_list, t2_cols_list,
                   table1, table2, pk_cols, ignore_cols, scalar_casts, limit,
                   compare_cols, query, results_iter,
                   final_column_names, row_idx, output_diffs, cast_expr,
                   cast_type, cast_result>>

\* a variant that does not reject an empty pk_cols
ValidateErrorNoEmptyCheck(pk, l1, l2) ==
    LET common == Range(l1) \cap Range(l2) IN
    IF \E i \in 1..Len(pk) : pk[i] \notin common
    THEN PkNotCommonError(pk[CHOOSE i \in 1..Len(pk) :
            pk[i] \notin common /\ \A j \in 1..(i - 1) : pk[j] \in common])
    ELSE NoError

\* the validation of pk_cols: the exception it raises, or NoError; the
\* membership tests do not depend on the order of common_schema_cols
ValidateError(pk, l1, l2) ==
    LET common == Range(l1) \cap Range(l2) IN
    IF pk = <<>> THEN EmptyPkError
    ELSE IF \E i \in 1..Len(pk) : pk[i] \notin common
    THEN PkNotCommonError(pk[CHOOSE i \in 1..Len(pk) :
            pk[i] \notin common /\ \A j \in 1..(i - 1) : pk[j] \in common])
    ELSE NoError

\* pk_cols is checked
Validate ==
    /\ pc = "fetched"
    /\ IF ValidateError(pk_cols, t1_cols_list, t2_cols_list) # NoError
       THEN Raise(ValidateError(pk_cols, t1_cols_list, t2_cols_list))
       ELSE pc' = "validated" /\ UNCHANGED error
    /\ UNCHANGED <<db_type, table1_name, table2_name, t1_cols_list, t2_cols_list,
                   table1, table2, pk_cols, ignore_cols, scalar_casts, limit,
                   compare_cols, query, executed, results_iter,
                   final_column_names, row_idx, output_diffs, cast_expr,
                   cast_type, cast_result>>

\* compare_cols and the query text are built; common_schema_cols is a local
\* list whose order, that of a Python set, is first read here
BuildQuery ==
    /\ pc = "validated"
    /\ \E common_schema_cols \in CommonSchemaCols(t1_cols_list, t2_cols_list) :
          compare_cols' = CompareCols(common_schema_cols, pk_cols, ignore_cols)
    /\ IF SelectExprsError(pk_cols, compare_cols', scalar_casts, db_type) # NoError
       THEN /\ Raise(SelectExprsError(pk_cols, compare_cols', scalar_casts, db_type))
            /\ UNCHANGED query
       ELSE /\ pc' = "built"
            /\ query' = QueryText(db_type, TableSqlRef(db_type, table1_name),
                                  TableSqlRef(db_type, table2_name), pk_cols,
                                  compare_cols', scalar_casts, limit)
            /\ UNCHANGED error
    /\ UNCHANGED <<db_type, table1_name, table2_name, t1_cols_list, t2_cols_list,
                   table1, table2, pk_cols, ignore_cols, scalar_casts, limit,
                   executed, results_iter,
                   final_column_names, row_idx, output_diffs, cast_expr,
                   cast_type, cast_result>>

\* the query is executed and its rows and description are fetched
Execute ==
    /\ pc = "built"
    /\ executed' = Append(executed, query)
    /\ results_iter' \in QueryResults(table1, table2, pk_cols, compare_cols,
                                      scalar_casts, limit)
    /\ final_column_names' = ResultColumnNames(pk_cols, compare_cols)
    /\ row_idx' = 0
    /\ pc' = "loop"
    /\ UNCHANGED <<db_type, table1_name, table2_name, t1_cols_list, t2_cols_list,
                   table1, table2, pk_cols, ignore_cols, scalar_casts, limit,
                   compare_cols, query, output_diffs, error,
                   cast_expr, cast_type, cast_result>>

\* one iteration of the loop over results_iter
Reconcile ==
    /\ pc = "loop"
    /\ row_idx < Len(results_iter)
    /\ output_diffs' = ReconcileRow(output_diffs, final_column_names,
                                    results_iter[row_idx + 1], pk_cols,
                                    compare_cols, db_type)
    /\ row_idx' = row_idx + 1
    /\ UNCHANGED <<db_type, table1_name, table2_name, t1_cols_list, t2_cols_list,
                   table1, table2, pk_cols, ignore_cols, scalar_casts, limit, pc,
                   compare_cols, query, executed,
                   results_iter, final_column_names, error, cast_expr,
                   cast_type, cast_result>>

\* return output_diffs
Return ==
    /\ pc = "loop"
    /\ row_idx = Len(results_iter)
    /\ pc' = "done"
    /\ UNCHANGED <<db_type, table1_name, table2_name, t1_cols_list, t2_cols_list,
                   table1, table2, pk_cols, ignore_cols, scalar_casts, limit,
                   compare_cols, query, executed,
                   results_iter, final_column_names, row_idx, output_diffs,
                   error, cast_expr, cast_type, cast_result>>

Next == FetchColumns \/ Validate \/ BuildQuery \/ Execute \/ Reconcile \/ Return

(***************************************************************************)
(* Inputs.                                                                 *)
(***************************************************************************)
\* the values a column of the modelled tables may hold
ColumnValues(c) ==
    IF c = "id" THEN {Null, IntV(1), IntV(2)}
    ELSE IF c = "k" THEN {Null, IntV(1)}
    ELSE IF c = "a" THEN {Null, IntV(1), ObjV(1)}
    ELSE {Null}

\* the rows of a table with the columns cols; a column the comparison never
\* selects holds NULL
RowsOf(cols, used) ==
    {r \in [cols -> {Null, IntV(1), IntV(2), ObjV(1)}] :
        \A c \in cols : r[c] \in (IF c \in used THEN ColumnValues(c) ELSE {Null})}

RECURSIVE SubsetsUpTo(_, _)
\* the subsets of S with at most n elements
SubsetsUpTo(S, n) ==
    IF n = 0 THEN {{}}
    ELSE LET P == SubsetsUpTo(S, n - 1) IN P \cup {p \cup {x} : p \in P, x \in S}

\* the pairs of table contents of the model
TablePairs(R1, R2) ==
    {tt \in SubsetsUpTo(R1, MaxTotalRows) \X SubsetsUpTo(R2, MaxTotalRows) :
        Cardinality(tt[1]) + Cardinality(tt[2]) <= MaxTotalRows}
    \cup {<<t, t>> : t \in SubsetsUpTo(R1 \cap R2, MaxSameRows)}

NoCasts == [c \in {} |-> <<>>]

\* the state before a run, all inputs given
InitRun(db, n1, n2, l1, l2, t1, t2, pk, ign, casts, lim) ==
    /\ db_type = db /\ table1_name = n1 /\ table2_name = n2
    /\ t1_cols_list = l1 /\ t2_cols_list = l2
    /\ table1 = t1 /\ table2 = t2
    /\ pk_cols = pk /\ ignore_cols = ign /\ scalar_casts = casts /\ limit = lim
    /\ pc = "start"
    /\ compare_cols = <<>>
    /\ query = "" /\ executed = <<>>
    /\ results_iter = <<>> /\ final_column_names = <<>>
    /\ row_idx = 0 /\ output_diffs = <<>>
    /\ error = NoError
    /\ cast_expr = "" /\ cast_type = <<>>
    /\ cast_result = [ok |-> FALSE, text |-> "", err |-> NoError]

TableNames(db) ==
    IF db = "bigquery" THEN << <<"ds", "table_A">>, <<"proj", "ds", "table_B">> >>
    ELSE << <<"table_A">>, <<"main", "table_B">> >>

\* runs on two tables with the columns id, k, a and varied contents
Init ==
    \E db \in {"duckdb", "bigquery"} :
    \E cfg \in { << <<"id">>, <<"k">> >>, << <<"id", "k">>, <<>> >>,
                 << <<"id">>, <<>> >>, << <<"id">>, <<"a", "k">> >> } :
    \E lim \in {{}, {1}} :
    LET cols == <<"id", "k", "a">>
        R == RowsOf(Range(cols), Range(cols) \ Range(cfg[2]))
    IN  \E tt \in TablePairs(R, R) :
            InitRun(db, TableNames(db)[1], TableNames(db)[2], cols,
                    <<"a", "id", "k">>, tt[1], tt[2], cfg[1], cfg[2], NoCasts, lim)

Spec == Init /\ [][Next]_vars

(***************************************************************************)
(* Runs over varied configurations: database types, table names, column    *)
(* listings, key columns, ignored columns, casts and limits, on small      *)
(* tables of integers.                                                     *)
(***************************************************************************)
\* the tables of the configuration runs: empty, or one row of ones
SmallTables(cols) == {{}, {[c \in Range(cols) |-> IntV(1)]}}

CastConfigs ==
    {NoCasts,
     [c \in {"a"} |-> <<"i","n","t">>],
     [c \in {"id"} |-> <<"t","e","x","t">>],
     [c \in {"a"} |-> <<"f","r","o","b","n","i","c","a","t","e">>],
     [c \in {"k", "zz"} |-> <<"f","r","o","b","n","i","c","a","t","e">>]}

InitBuild ==
    \E dbn \in { <<"duckdb", <<"table_A">>, <<"main", "table_B">> >>,
                 <<"bigquery", <<"ds", "table_A">>, <<"proj", "ds", "table_B">> >>,
                 <<"bigquery", <<"proj", "ds", "table_A">>, <<"table_B">> >>,
                 <<"sqlite", <<"table_A">>, <<"table_B">> >> } :
    \E l1 \in {<<"id", "k", "a">>, <<"a", "k", "id">>, <<"k", "id", "a">>} :
    \E l2 \in {<<"a", "id", "k">>, <<"id", "a", "zz">>} :
    \E pk \in {<<>>, <<"id">>, <<"id", "k">>, <<"k", "id">>, <<"zz">>, <<"id", "zz">>} :
    \E ign \in {<<>>, <<"a">>, <<"k", "a">>} :
    \E casts \in CastConfigs :
    \E lim \in {{}, {0}, {12}} :
    \E t1 \in SmallTables(l1) :
    \E t2 \in SmallTables(l2) :
        InitRun(dbn[1], dbn[2], dbn[3], l1, l2, t1, t2, pk, ign, casts, lim)

SpecBuild == InitBuild /\ [][Next]_vars

(***************************************************************************)
(* Runs in which the connection hands back a description, and rows, that   *)
(* lack one of the aliased columns.                                        *)
(***************************************************************************)
\* s without its j-th element
RemoveAt(s, j) == SubSeq(s, 1, j - 1) \o SubSeq(s, j + 1, Len(s))

ExecuteMalformed ==
    /\ pc = "built"
    /\ executed' = Append(executed, query)
    /\ \E j \in (Len(pk_cols) + 1)..Len(ResultColumnNames(pk_cols, compare_cols)) :
       \E rows \in QueryResults(table1, table2, pk_cols, compare_cols,
                                scalar_casts, limit) :
          /\ results_iter' = Map(rows, LAMBDA r : RemoveAt(r, j))
          /\ final_column_names' = RemoveAt(ResultColumnNames(pk_cols, compare_cols), j)
    /\ row_idx' = 0
    /\ pc' = "loop"
    /\ UNCHANGED <<db_type, table1_name, table2_name, t1_cols_list, t2_cols_list,
                   table1, table2, pk_cols, ignore_cols, scalar_casts, limit,
                   compare_cols, query, output_diffs, error,
                   cast_expr, cast_type, cast_result>>

NextMalformed ==
    FetchColumns \/ Validate \/ BuildQuery \/ Execute \/ ExecuteMalformed
        \/ Reconcile \/ Return

SpecMalformed == Init /\ [][NextMalformed]_vars

(***************************************************************************)
(* Calls of _get_cast_expression_for_sql_expr on varied type spellings.    *)
(***************************************************************************)
RECURSIVE CaseVariants(_)
\* every mix of upper and lower case of a spelling
CaseVariants(s) ==
    IF s = <<>> THEN {<<>>}
    ELSE {<<c>> \o v : c \in {LowerChar(Head(s)), UpperChar(Head(s))},
                       v \in CaseVariants(Tail(s))}

StrLower(s) == [i \in 1..Len(s) |-> LowerChar(s[i])]

\* s.capitalize()
Capitalized(s) ==
    IF s = <<>> THEN <<>> ELSE <<UpperChar(Head(s))>> \o StrLower(Tail(s))

\* the spellings of a type name the calls are made with
Spellings(s) ==
    {StrLower(s), StrUpper(s), Capitalized(s)}
    \cup (IF Len(s) <= 4 THEN CaseVariants(s) ELSE {})

CastTypeInputs ==
    UNION {Spellings(valid_types[i]) : i \in 1..Len(valid_types)}
    \cup UNION {Spellings(mapping[i][1]) : i \in 1..Len(mapping)}
    \cup Spellings(<<"f","r","o","b","n","i","c","a","t","e">>)
    \cup {<<>>, <<"i","n","t","3","2">>, <<"i","n","t"," ">>}

InitCast ==
    /\ cast_expr \in {"x", "t1.\"a\""}
    /\ cast_type \in CastTypeInputs
    /\ cast_result = [ok |-> FALSE, text |-> "", err |-> NoError]
    /\ pc = "cast_call"
    /\ db_type = "duckdb" /\ table1_name = <<>> /\ table2_name = <<>>
    /\ t1_cols_list = <<>> /\ t2_cols_list = <<>>
    /\ table1 = {} /\ table2 = {}
    /\ pk_cols = <<>> /\ ignore_cols = <<>> /\ scalar_casts = NoCasts /\ limit = {}
    /\ compare_cols = <<>> /\ query = "" /\ executed = <<>>
    /\ results_iter = <<>> /\ final_column_names = <<>>
    /\ row_idx = 0 /\ output_diffs = <<>> /\ error = NoError

\* one call of the cast resolver
CastCall ==
    /\ pc = "cast_call"
    /\ cast_result' = GetCastExpressionForSqlExpr(cast_expr, cast_type)
    /\ pc' = "cast_done"
    /\ UNCHANGED <<db_type, table1_name, table2_name, t1_cols_list, t2_cols_list,
                   table1, table2, pk_cols, ignore_cols, scalar_casts, limit,
                   compare_cols, query, executed, results_iter,
                   final_column_names, row_idx, output_diffs, error,
                   cast_expr, cast_type>>

NextCast == CastCall

SpecCast == InitCast /\ [][NextCast]_vars

(***************************************************************************)
(* Vocabulary of the properties, stated on the inputs and the outputs.     *)
(***************************************************************************)
\* the compare columns: common, not a key, not ignored
CompareColumnSet ==
    ((Range(t1_cols_list) \cap Range(t2_cols_list)) \ Range(pk_cols))
        \ Range(ignore_cols)

\* the primary-key value of a table row
KeyOf(r) == [i \in 1..Len(pk_cols) |-> r[pk_cols[i]]]

\* every key column of every row is non-NULL and no two rows share a key
PkNonNullUnique(t) ==
    \A r \in t :
        /\ \A i \in 1..Len(pk_cols) : r[pk_cols[i]] # Null
        /\ \A r2 \in t : KeyOf(r2) = KeyOf(r) => r2 = r

SameSchema == Range(t1_cols_list) = Range(t2_cols_list)

Table1Only == "present_in_table1_only"
Table2Only == "present_in_table2_only"
ValueDifferences == "value_differences"

\* a value as a value-difference record shows it: as it is
AsIs(v) == v

\* a value as a value-difference record shows it: a non-primitive value of a
\* BigQuery result in its string form
StringFormUnderBigquery(v) ==
    IF db_type = "bigquery" /\ v[1] = "obj" THEN <<"objstr", v[2]>> ELSE v

\* the diff records the comparison of table1 and table2 calls for, one per
\* key that is on one side only or whose rows differ on a compare column
ExpectedRecords(Shown(_)) ==
    {[pk |-> [c \in Range(pk_cols) |-> r[c]],
      diffs |-> [c \in CompareColumnSet |-> <<r[c], Null>>],
      status |-> Table1Only] :
        r \in {r1 \in table1 : \A r2 \in table2 : KeyOf(r2) # KeyOf(r1)}}
    \cup
    {[pk |-> [c \in Range(pk_cols) |-> r[c]],
      diffs |-> [c \in CompareColumnSet |-> <<Null, r[c]>>],
      status |-> Table2Only] :
        r \in {r2 \in table2 : \A r1 \in table1 : KeyOf(r1) # KeyOf(r2)}}
    \cup
    {[pk |-> [c \in Range(pk_cols) |-> rr[1][c]],
      diffs |-> [c \in {d \in CompareColumnSet : rr[1][d] # rr[2][d]} |->
                    <<Shown(rr[1][c]), Shown(rr[2][c])>>],
      status |-> ValueDifferences] :
        rr \in {x \in table1 \X table2 :
                  /\ KeyOf(x[1]) = KeyOf(x[2])
                  /\ \E d \in CompareColumnSet : x[1][d] # x[2][d]}}

\* the output holds each expected record once and nothing else
OutputIs(E) == Range(output_diffs) = E /\ Len(output_diffs) = Cardinality(E)

\* the LIMIT clause, if any, does not cut the result short
LimitAllows(n) == \A m \in limit : m >= n

(***************************************************************************)
(* C1                                                                      *)
(***************************************************************************)
\* C1 as stated: whenever table1 and table2 have the same schema and the same
\* content, whatever the rows (NULL keys and shared keys included), the run
\* returns no diff record.
C1_IdenticalTablesAnyRows ==
    (pc \in {"loop", "done"} /\ SameSchema /\ table1 = table2)
        => output_diffs = <<>>

\* C1 as amended: whenever table1 and table2 have the same schema and the
\* same content and every key is non-NULL in every key column and unique in
\* its table, the query selects no row and the run returns no diff record.
C1_IdenticalTablesNoDiffs ==
    (pc \in {"loop", "done"} /\ SameSchema /\ table1 = table2
        /\ PkNonNullUnique(table1))
        => results_iter = <<>> /\ output_diffs = <<>>

\* a run on two equal two-row tables with a compare column has returned
C1_Witness ==
    /\ pc = "done" /\ SameSchema /\ table1 = table2
    /\ Cardinality(table1) = 2 /\ PkNonNullUnique(table1)
    /\ compare_cols # <<>> /\ Len(pk_cols) = 2
    /\ output_diffs = <<>>

(***************************************************************************)
(* C2                                                                      *)
(***************************************************************************)
\* C2 as stated: when the keys of both tables are non-NULL and unique, the
\* run returns exactly one record per key that is in table1 only (status
\* present_in_table1_only, every compare column [value1, None]), in table2
\* only (present_in_table2_only, [None, value2]) or in both with a differing
\* compare column (value_differences, exactly the differing columns as
\* [value1, value2]), and no record for a key whose rows agree.
C2_OneRecordPerKeyAsStated ==
    (pc = "done" /\ PkNonNullUnique(table1) /\ PkNonNullUnique(table2))
        => OutputIs(ExpectedRecords(AsIs))

\* C2 as amended: the same, provided the limit is None or not below the
\* number of such keys, and with a non-primitive value of a BigQuery result
\* shown in its string form in a value_differences record.
C2_OneRecordPerKey ==
    (pc = "done" /\ PkNonNullUnique(table1) /\ PkNonNullUnique(table2)
        /\ LimitAllows(Cardinality(ExpectedRecords(StringFormUnderBigquery))))
        => OutputIs(ExpectedRecords(StringFormUnderBigquery))

\* a run has returned one value_differences record that reports one of two
\* compare columns, on tables of which one row each shares the key
C2_Witness ==
    /\ pc = "done" /\ PkNonNullUnique(table1) /\ PkNonNullUnique(table2)
    /\ Cardinality(table1) = 1 /\ Cardinality(table2) = 1
    /\ Cardinality(CompareColumnSet) = 2
    /\ Len(output_diffs) = 1
    /\ output_diffs[1].status = ValueDifferences
    /\ Cardinality(DOMAIN output_diffs[1].diffs) = 1

(***************************************************************************)
(* C3                                                                      *)
(***************************************************************************)
\* the value a result row holds under a column name of the description
ValueAt(row, name) ==
    row[CHOOSE i \in 1..Len(final_column_names) : final_column_names[i] = name]

\* every t2_<pk> of the row is None and some t1_<pk> is not
RowIsSide1Only(row) ==
    /\ \A i \in 1..Len(pk_cols) : ValueAt(row, "t2_" \o pk_cols[i]) = Null
    /\ \E i \in 1..Len(pk_cols) : ValueAt(row, "t1_" \o pk_cols[i]) # Null

\* the loop body runs on the next result row
LoopStep == pc = "loop" /\ row_idx' = row_idx + 1

\* the loop body appended a record
Emitted == Len(output_diffs') = Len(output_diffs) + 1

\* the record the loop body appended
NewRecord == output_diffs'[Len(output_diffs')]

RowOnBothSides(row) ==
    \A i \in 1..Len(pk_cols) :
        /\ ValueAt(row, "t1_" \o pk_cols[i]) # Null
        /\ ValueAt(row, "t2_" \o pk_cols[i]) # Null

BothNull(row, c) ==
    ValueAt(row, "t1_" \o c) = Null /\ ValueAt(row, "t2_" \o c) = Null

OneNull(row, c) ==
    (ValueAt(row, "t1_" \o c) = Null) # (ValueAt(row, "t2_" \o c) = Null)

\* for a row on both sides, a compare column that is NULL on one side only is
\* in the column diffs of the record appended for the row
OneSidedNullReported ==
    (LoopStep /\ RowOnBothSides(results_iter[row_idx + 1]))
        => \A c \in CompareColumnSet :
              OneNull(results_iter[row_idx + 1], c)
                  => Emitted /\ c \in DOMAIN NewRecord.diffs

\* C6 as stated: in every record appended, a compare column that is NULL on
\* both sides of the row is not in the column diffs; and for a row on both
\* sides a compare column NULL on one side only is in the column diffs.
C6_NullSafeAsStated ==
    [][/\ (LoopStep /\ Emitted)
            => \A c \in CompareColumnSet :
                  BothNull(results_iter[row_idx + 1], c)
                      => c \notin DOMAIN NewRecord.diffs
       /\ OneSidedNullReported]_vars

\* C6 as amended: in every record appended that is not a presence-only
\* record, a compare column that is NULL on both sides is not in the column
\* diffs; and for a row on both sides a compare column NULL on one side only
\* is in the column diffs.
C6_NullSafe ==
    [][/\ (LoopStep /\ Emitted /\ NewRecord.status \notin {Table1Only, Table2Only})
            => \A c \in CompareColumnSet :
                  BothNull(results_iter[row_idx + 1], c)
                      => c \notin DOMAIN NewRecord.diffs
       /\ OneSidedNullReported]_vars

\* a value_differences record has been appended for a row on both sides with
\* one compare column NULL on both sides and another NULL on one side only
C6_Witness ==
    /\ pc = "loop" /\ row_idx > 0 /\ Len(output_diffs) = row_idx
    /\ RowOnBothSides(results_iter[row_idx])
    /\ output_diffs[Len(output_diffs)].status = ValueDifferences
    /\ \E c \in CompareColumnSet : BothNull(results_iter[row_idx], c)
    /\ \E c \in CompareColumnSet :
          /\ OneNull(results_iter[row_idx], c)
          /\ c \in DOMAIN output_diffs[Len(output_diffs)].diffs

(***************************************************************************)
(* C7                                                                      *)
(***************************************************************************)
\* C7: when the compare-column set is empty, every record returned has status
\* present_in_table1_only or present_in_table2_only.
C7_EmptyCompareSetPresenceOnly ==
    CompareColumnSet = {}
        => \A i \in 1..Len(output_diffs) :
              output_diffs[i].status \in {Table1Only, Table2Only}

\* a run with no compare column has returned a presence-only record after
\* passing over a selected row that is on neither side only
C7_Witness ==
    /\ pc = "done" /\ CompareColumnSet = {}
    /\ Len(results_iter) = 2 /\ Len(output_diffs) = 1
    /\ output_diffs[1].status \in {Table1Only, Table2Only}

(***************************************************************************)
(* C4, C5                                                                  *)
(***************************************************************************)
\* the supported set the documentation of --scalar-casts lists
SupportedTypes ==
    {<<"S","T","R","I","N","G">>, <<"F","L","O","A","T","6","4">>, <<"B","O","O","L">>,
     <<"D","A","T","E">>, <<"T","I","M","E","S","T","A","M","P">>,
     <<"I","N","T","6","4">>, <<"B","Y","T","E","S">>, <<"N","U","M","E","R","I","C">>,
     <<"B","I","G","N","U","M","E","R","I","C">>, <<"J","S","O","N">>, <<"T","I","M","E">>}

\* the canonical name of an uppercased type name: a synonym gives its
\* canonical type, any other name itself
Canonical(t) ==
    IF t = <<"T","E","X","T">> THEN <<"S","T","R","I","N","G">>
    ELSE IF t \in {<<"I","N","T">>, <<"I","N","T","E","G","E","R">>, <<"B","I","G","I","N","T">>}
         THEN <<"I","N","T","6","4">>
    ELSE IF t = <<"D","O","U","B","L","E">> THEN <<"F","L","O","A","T","6","4">>
    ELSE IF t = <<"B","O","O","L","E","A","N">> THEN <<"B","O","O","L">>
    ELSE IF t = <<"D","E","C","I","M","A","L">> THEN <<"N","U","M","E","R","I","C">>
    ELSE t

\* the names the claim lists as synonyms
Synonyms ==
    {<<"T","E","X","T">>, <<"I","N","T">>, <<"I","N","T","E","G","E","R">>,
     <<"B","I","G","I","N","T">>, <<"D","O","U","B","L","E">>,
     <<"B","O","O","L","E","A","N">>, <<"D","E","C","I","M","A","L">>}

CastText(x, t) == "CAST(" \o x \o " AS " \o Concat(t) \o ")"

\* C4: a call with any spelling, in any letter case, of a synonym returns the
\* CAST text with the synonym's canonical type: CAST(x AS INT64) for int, INT
\* and Integer, STRING for TEXT, INT64 for BIGINT, FLOAT64 for DOUBLE, BOOL for
\* BOOLEAN, NUMERIC for DECIMAL.
C4_SynonymsGiveCanonicalCast ==
    (pc = "cast_done" /\ StrUpper(cast_type) \in Synonyms)
        => /\ cast_result.ok
           /\ cast_result.text = CastText(cast_expr, Canonical(StrUpper(cast_type)))

\* C5: a call fails with the unsupported-type error naming the input whenever
\* the uppercased, synonym-mapped type is outside the supported set, and a
\* call that succeeds writes a type of the supported set into the CAST text.
C5_UnsupportedTypeRejected ==
    pc = "cast_done"
        => /\ Canonical(StrUpper(cast_type)) \notin SupportedTypes
                => /\ ~cast_result.ok
                   /\ cast_result.err.kind = "unsupported_cast"
                   /\ cast_result.err.input = Concat(cast_type)
           /\ cast_result.ok
                => \E t \in SupportedTypes :
                      cast_result.text = CastText(cast_expr, t)

(***************************************************************************)
(* C8                                                                      *)
(***************************************************************************)
\* C8: the query text built is the text every run builds from the same
\* inputs, whatever the order in which the two column listings and the set
\* of common columns are listed; the compare columns are in sorted order.
C8_QueryDeterministic ==
    pc \in {"built", "loop", "done"}
        => /\ \A l1 \in Perms(Range(t1_cols_list)) :
              \A l2 \in Perms(Range(t2_cols_list)) :
              \A common \in CommonSchemaCols(l1, l2) :
                  query = QueryText(db_type, TableSqlRef(db_type, table1_name),
                                    TableSqlRef(db_type, table2_name), pk_cols,
                                    CompareCols(common, pk_cols, ignore_cols),
                                    scalar_casts, limit)
           /\ Range(compare_cols) = CompareColumnSet
           /\ \A i, j \in 1..Len(compare_cols) :
                 i < j => ColumnRank(compare_cols[i]) < ColumnRank(compare_cols[j])

\* a query over two compare columns has been built from listings in
\* different orders
C8_Witness ==
    /\ pc = "built" /\ Len(compare_cols) = 2
    /\ t1_cols_list # t2_cols_list /\ SameSchema
    /\ scalar_casts # NoCasts /\ limit # {}

(***************************************************************************)
(* C9                                                                      *)
(***************************************************************************)
PkInvalid ==
    \/ pk_cols = <<>>
    \/ \E i \in 1..Len(pk_cols) :
          pk_cols[i] \notin Range(t1_cols_list) \cap Range(t2_cols_list)

DescriptionMalformed ==
    \E c \in Range(pk_cols) \cup Range(compare_cols) :
        \/ ("t1_" \o c) \notin Range(final_column_names)
        \/ ("t2_" \o c) \notin Range(final_column_names)

\* C10: once the loop body has run on a row of a result whose description
\* lacks an aliased column, the run has failed with an error.
C10_MalformedRowFailsLoudly ==
    (pc \in {"loop", "done"} /\ row_idx > 0 /\ DescriptionMalformed)
        => error # NoError

(***************************************************************************)
(* C11                                                                     *)
(***************************************************************************)
\* the row has no non-NULL key value on either side
RowKeyAllNull(row) ==
    \A i \in 1..Len(pk_cols) :
        /\ ValueAt(row, "t1_" \o pk_cols[i]) = Null
        /\ ValueAt(row, "t2_" \o pk_cols[i]) = Null

\* the record reports a difference: a column diff or a presence-only status
ReportsDifference(rec) ==
    \/ DOMAIN rec.diffs # {}
    \/ rec.status \in {Table1Only, Table2Only}

\* C11: whenever the loop body runs on a row the query returned, it appends a
\* record that reports at least one difference (a non-empty column diff or a
\* presence-only status); no returned row is dropped.
C11_EveryReturnedRowEmits ==
    [][LoopStep => (Emitted /\ ReportsDifference(NewRecord))]_vars

\* the loop has passed over a returned row whose key is NULL on both sides
\* without appending a record
C11_DroppedRow ==
    /\ pc = "loop" /\ row_idx = 1 /\ output_diffs = <<>>
    /\ RowKeyAllNull(results_iter[1])

(***************************************************************************)
(* C12                                                                     *)
(***************************************************************************)
\* the key values a result row carries in its COALESCE columns
RowKey(row) == [c \in Range(pk_cols) |-> ValueAt(row, c)]

\* text occurs in s at position i
OccursAt(s, text, i) ==
    i + Len(text) - 1 <= Len(s) /\ SubSeq(s, i, i + Len(text) - 1) = text

\* s ends with text
EndsWith(s, text) ==
    Len(s) >= Len(text) /\ OccursAt(s, text, Len(s) - Len(text) + 1)

\* text occurs somewhere in s
Contains(s, text) == \E i \in 1..Len(s) : OccursAt(s, text, i)

\* the loop body leaves the records it has appended in place and appends at
\* most one record, which carries the key of the row it ran on
AppendsAtMostOneInOrder ==
    LoopStep =>
        \/ output_diffs' = output_diffs
        \/ /\ Emitted
           /\ SubSeq(output_diffs', 1, Len(output_diffs)) = output_diffs
           /\ NewRecord.pk = RowKey(results_iter[row_idx + 1])

\* outside the loop body no record is appended, moved or removed
OnlyLoopChangesOutput == (~LoopStep) => output_diffs' = output_diffs

\* the query text ends with " LIMIT n" when limit is n and holds no LIMIT
\* when limit is None
LimitAppendedIffGiven ==
    pc \in {"built", "loop", "done"} =>
        /\ \A n \in limit : EndsWith(query, " LIMIT " \o IntToStr(n))
        /\ limit = {} => ~Contains(query, "LIMIT")

\* with a limit n no more than n records are held
AtMostLimitRecords == \A n \in limit : Len(output_diffs) <= n

\* C12: the loop appends at most one record per result row, in the order of
\* the rows, and nothing else changes the records; LIMIT is in the query
\* exactly when limit is not None; with a limit n at most n records are
\* returned.
C12_OrderPreservedAndLimited ==
    /\ [][AppendsAtMostOneInOrder /\ OnlyLoopChangesOutput]_vars
    /\ [](LimitAppendedIffGiven /\ AtMostLimitRecords /\ Len(output_diffs) <= row_idx)

\* a run with limit 1 over tables with two rows to report has returned one
\* record, that of the one row the query returned
C12_Witness ==
    /\ pc = "done" /\ limit = {1}
    /\ Len(SelectedRows(table1, table2, pk_cols, compare_cols, scalar_casts)) = 2
    /\ Len(results_iter) = 1 /\ Len(output_diffs) = 1
    /\ output_diffs[1].pk = RowKey(results_iter[1])


====
